---------------------------- MODULE Spec2Model ----------------------------
(***************************************************************************)
(* Model of the QGIS "Project Cloner" plugin (src/project_cloner.py):      *)
(* the worker CloneThread.run, which snapshots the project, exports every  *)
(* layer and packs the result into a ZIP archive, and the plugin object    *)
(* ProjectCloner, whose slots start_clone / clone_finished drive it.       *)
(*                                                                         *)
(* File names are sequences of one-character strings, so that sanitising,  *)
(* splitext and startswith are computed as the code computes them.         *)
(***************************************************************************)
EXTENDS Integers, Sequences, FiniteSets, TLC

\* ------------------------------------------------------------ bounds
MaxLayers == 2      \* layers of the project in the worker specification
MaxRuns == 2        \* clone runs started from the dialog
MaxLayersUI == 1    \* layers of the project in the dialog specification

Threads == 1..MaxRuns

VARIABLES
    project_file,   \* QgsProject.instance().fileName(): "" when none is loaded
    layers,         \* QgsProject.instance().mapLayers().values(), in order
    hasWriteLayer,  \* hasattr(QgsLayerDefinition, "writeLayer")
    pc,             \* per thread: position of CloneThread.run
    include_data,   \* per thread: self.include_data
    temp_dir,       \* per thread: self.temp_dir (0 is None, else the directory)
    i,              \* per thread: loop counter of enumerate(..., start=1)
    layer_files,    \* per thread: the local list layer_files
    exc,            \* per thread: the exception in flight ("" when none)
    def_failed,     \* per thread: layers whose definition export was skipped or raised
    escaped,        \* per thread: the exception run() ended with ("" when none)
    progress,       \* per thread: values emitted on progress_updated
    finished,       \* per thread: successes emitted on finished_signal
    wa,             \* per directory: the working area on disk
    archive,        \* the file at output_path
    clone_button,   \* dialog.clone_button.isEnabled()
    output_path_edit, \* dialog.output_path_edit.text(): "" or a path
    progress_bar,   \* dialog.progress_bar.value()
    clone_thread,   \* ProjectCloner.clone_thread (0 is None)
    queue,          \* queued signal deliveries to the GUI thread
    boxes           \* open modal message boxes, innermost last

wvars == <<pc, include_data, def_failed, temp_dir, i, layer_files, exc, escaped,
           progress, finished, wa, archive, queue>>
gvars == <<clone_button, output_path_edit, progress_bar, clone_thread, boxes>>
pvars == <<project_file, layers, hasWriteLayer>>
vars == <<pvars, wvars, gvars>>

\* ------------------------------------------------------------ strings
Alnum == {"a", "b", "c", "d", "e", "g", "j", "l", "m", "n", "o", "p", "q",
          "r", "s", "t", "z", "2"}

IsSafeChar(c) == c \in Alnum \/ c \in {" ", "_", "-"}

sanitize_filename(name) ==
    [k \in 1..Len(name) |-> IF IsSafeChar(name[k]) THEN name[k] ELSE "_"]

startswith(f, prefix) ==
    /\ Len(prefix) <= Len(f)
    /\ SubSeq(f, 1, Len(prefix)) = prefix

\* os.path.splitext: the extension starts at the last dot of the name,
\* unless only dots precede it.
DotAt(s) ==
    LET ds == {k \in 1..Len(s) : s[k] = "."}
        last == IF ds = {} THEN 0 ELSE CHOOSE k \in ds : \A j \in ds : j <= k
    IN IF last = 0 \/ (\A j \in 1..(last - 1) : s[j] = ".") THEN 0 ELSE last

splitext_root(s) == IF DotAt(s) = 0 THEN s ELSE SubSeq(s, 1, DotAt(s) - 1)
splitext_ext(s) == IF DotAt(s) = 0 THEN <<>> ELSE SubSeq(s, DotAt(s), Len(s))

ProjectQgz == <<"p", "r", "o", "j", "e", "c", "t", ".", "q", "g", "z">>
MetadataJson == <<"m", "e", "t", "a", "d", "a", "t", "a", ".", "j", "s", "o", "n">>
QmlExt == <<".", "q", "m", "l">>
QlrExt == <<".", "q", "l", "r">>

\* ------------------------------------------------------------ the host
Kinds == {"vector", "raster", "other"}
LayerNames == {<<"a", "/", "b">>, <<"a", "_", "b">>}

\* The data directory on disk: regular files and one sub-directory.
DataDir == {[name |-> <<"r", ".", "s">>, isfile |-> TRUE],
            [name |-> <<"r", ".", "d">>, isfile |-> TRUE],
            [name |-> <<"r", "2", ".", "s">>, isfile |-> TRUE],
            [name |-> <<"r", ".", "t">>, isfile |-> FALSE],
            [name |-> <<"q", ".", "t">>, isfile |-> TRUE]}

\* Layer sources: the base names of paths inside the data directory.
Sources == {<<"r", ".", "s">>, <<"m", ".", "s">>}

isfile(source) == \E e \in DataDir : e.name = source /\ e.isfile

IsDataBearing(layer) == layer.kind \in {"vector", "raster"}

LayerSet == [kind : Kinds, name : LayerNames, source : Sources]
LayerSeqs(n) == UNION {[1..k -> LayerSet] : k \in 0..n}

total_layers == Len(layers)

\* ------------------------------------------------------------ files
Content(kind, n, src, flag) == [kind |-> kind, n |-> n, src |-> src, flag |-> flag]
File(name, content) == [name |-> name, content |-> content]

NoDir == [exists |-> FALSE, files |-> {}]
NoFile == [exists |-> FALSE, entries |-> <<>>, complete |-> FALSE]

HasFile(dir, name) == \E f \in dir.files : f.name = name
ReadFile(dir, name) == (CHOOSE f \in dir.files : f.name = name).content
WriteFile(dir, name, content) ==
    [dir EXCEPT !.files = {f \in dir.files : f.name # name}
                          \cup {File(name, content)}]


\* ------------------------------------------------------------ signals
ProgressEvent(t, v) == [sig |-> "progress", t |-> t, success |-> FALSE, value |-> v]
FinishedEvent(t, ok) == [sig |-> "finished", t |-> t, success |-> ok, value |-> 0]

\* self.progress_updated.emit(v)
EmitProgress(t, v) ==
    /\ progress' = [progress EXCEPT ![t] = Append(@, v)]
    /\ queue' = Append(queue, ProgressEvent(t, v))

\* self.finished_signal.emit(ok, message)
EmitFinished(t, ok) ==
    /\ finished' = [finished EXCEPT ![t] = Append(@, ok)]
    /\ queue' = Append(queue, FinishedEvent(t, ok))

\* A statement of the try block raises e: control moves to the handlers.
Raise(t, e) ==
    /\ exc' = [exc EXCEPT ![t] = e]
    /\ pc' = [pc EXCEPT ![t] = "except"]

Goto(t, label) == pc' = [pc EXCEPT ![t] = label]

\* Variant: the handler is written "except FileNotFoundError", which the
\* other I/O errors pass by.
CatchesFileNotFoundOnly(e) == e = "FileNotFoundError"

\* "except Exception": every exception the run can raise derives from it.
ExceptionClasses == {"OSError", "FileNotFoundError"}
Catches(e) == e \in ExceptionClasses

\* Variant: the loop's share of the bar taken as 100 instead of 80.
LoopProgressFullScale(k, total) == 10 + ((k * 100) \div total)

\* int(10 + (k / total_layers) * 80)
LoopProgress(k, total) == 10 + ((k * 80) \div total)

\* ------------------------------------------------------------ CloneThread.run
\* status_updated.emit; self.temp_dir = tempfile.mkdtemp()
RunStart(t) ==
    /\ pc[t] = "start"
    /\ \/ /\ temp_dir' = [temp_dir EXCEPT ![t] = t]
          /\ wa' = [wa EXCEPT ![t] = [exists |-> TRUE, files |-> {}]]
          /\ Goto(t, "check")
          /\ UNCHANGED exc
       \/ /\ Raise(t, "OSError")
          /\ UNCHANGED <<temp_dir, wa>>
    /\ UNCHANGED <<pvars, gvars, include_data, def_failed, i, layer_files, escaped,
                   progress, finished, archive, queue>>

\* project_file = project.fileName(); if not project_file: emit, return
CheckProject(t) ==
    /\ pc[t] = "check"
    /\ IF project_file = ""
          THEN /\ EmitFinished(t, FALSE)
               /\ Goto(t, "finally")
          ELSE /\ Goto(t, "backup")
               /\ UNCHANGED <<finished, queue>>
    /\ UNCHANGED <<pvars, gvars, include_data, def_failed, temp_dir, i, layer_files, exc,
                   escaped, progress, wa, archive>>

\* project.write(project_backup) reports a failed write by its return value,
\* which the code ignores; progress 10; layers, total_layers, layer_files.
Backup(t) ==
    /\ pc[t] = "backup"
    /\ \/ wa' = [wa EXCEPT ![temp_dir[t]] =
                    WriteFile(@, ProjectQgz, Content("project", 0, <<>>, FALSE))]
       \/ UNCHANGED wa
    /\ EmitProgress(t, 10)
    /\ i' = [i EXCEPT ![t] = 0]
    /\ layer_files' = [layer_files EXCEPT ![t] = <<>>]
    /\ Goto(t, "loop")
    /\ UNCHANGED <<pvars, gvars, include_data, def_failed, temp_dir, exc, escaped,
                   finished, archive>>

\* for i, layer in enumerate(layers.values(), start=1): progress; isinstance
LoopNext(t) ==
    /\ pc[t] = "loop"
    /\ IF i[t] < total_layers
          THEN /\ i' = [i EXCEPT ![t] = @ + 1]
               /\ EmitProgress(t, LoopProgress(i[t] + 1, total_layers))
               /\ Goto(t, IF IsDataBearing(layers[i[t] + 1]) THEN "copy" ELSE "loop")
          ELSE /\ Goto(t, "zip")
               /\ UNCHANGED <<i, progress, queue>>
    /\ UNCHANGED <<pvars, gvars, include_data, def_failed, temp_dir, layer_files, exc,
                   escaped, finished, wa, archive>>

DataName(layer) == sanitize_filename(layer.name) \o splitext_ext(layer.source)
StyleName(layer) == sanitize_filename(layer.name) \o QmlExt
DefName(layer) == sanitize_filename(layer.name) \o QlrExt

\* _copy_associated_files: every regular file of the source's directory whose
\* name starts with the source's base name, copied under its own name.
Associated(source) ==
    {e.name : e \in {d \in DataDir :
                        startswith(d.name, splitext_root(source)) /\ d.isfile}}

copy_associated_files(dir, source) ==
    [dir EXCEPT !.files =
        {f \in dir.files : f.name \notin Associated(source)}
        \cup {File(n, Content("data", 0, n, FALSE)) : n \in Associated(source)}]

\* Variant: the include-data flag left out of the condition.
ShouldCopyAlways(t, layer) == isfile(layer.source)

\* if self.include_data and os.path.isfile(source)
ShouldCopy(t, layer) == include_data[t] /\ isfile(layer.source)

\* The copy of the data file: copy2, layer_files.append, _copy_associated_files
CopyData(t) ==
    /\ pc[t] = "copy"
    /\ LET layer == layers[i[t]]
           dest_file == DataName(layer)
           copied == WriteFile(wa[temp_dir[t]], dest_file,
                               Content("data", 0, layer.source, FALSE))
       IN IF ShouldCopy(t, layer)
             THEN \/ /\ Raise(t, "OSError")                 \* copy2 raises
                     /\ UNCHANGED <<wa, layer_files>>
                  \/ /\ wa' = [wa EXCEPT ![temp_dir[t]] = copied]
                     /\ layer_files' = [layer_files EXCEPT ![t] = Append(@, dest_file)]
                     /\ Raise(t, "OSError")                 \* a sibling's copy raises
                  \/ /\ wa' = [wa EXCEPT ![temp_dir[t]] =
                                  copy_associated_files(copied, layer.source)]
                     /\ layer_files' = [layer_files EXCEPT ![t] = Append(@, dest_file)]
                     /\ Goto(t, "style")
                     /\ UNCHANGED exc
             ELSE /\ Goto(t, "style")
                  /\ UNCHANGED <<wa, layer_files, exc>>
    /\ UNCHANGED <<pvars, gvars, include_data, def_failed, temp_dir, i, escaped, progress,
                   finished, archive, queue>>

\* layer.saveNamedStyle(style_file) reports failure by its return value, which
\* the code ignores; layer_files.append(style_file) either way.
SaveStyle(t) ==
    /\ pc[t] = "style"
    /\ LET layer == layers[i[t]]
           style_file == StyleName(layer)
       IN /\ \/ wa' = [wa EXCEPT ![temp_dir[t]] =
                          WriteFile(@, style_file, Content("style", i[t], <<>>, FALSE))]
             \/ UNCHANGED wa
          /\ layer_files' = [layer_files EXCEPT ![t] = Append(@, style_file)]
          /\ Goto(t, IF layer.kind = "vector" THEN "def" ELSE "loop")
    /\ UNCHANGED <<pvars, gvars, include_data, def_failed, temp_dir, i, exc, escaped,
                   progress, finished, archive, queue>>

\* Variant: writeLayer called outside any try block, so that its exception
\* reaches the handler of the run.
WriteDefUncaught(t) ==
    /\ pc[t] = "def"
    /\ LET layer_def_file == DefName(layers[i[t]])
           skipped == [def_failed EXCEPT ![t] = @ \cup {i[t]}]
       IN IF hasWriteLayer
             THEN \/ /\ wa' = [wa EXCEPT ![temp_dir[t]] =
                                  WriteFile(@, layer_def_file,
                                            Content("def", i[t], <<>>, FALSE))]
                     /\ layer_files' = [layer_files EXCEPT ![t] = Append(@, layer_def_file)]
                     /\ Goto(t, "loop")
                     /\ UNCHANGED <<def_failed, exc>>
                  \/ /\ def_failed' = skipped
                     /\ Raise(t, "OSError")
                     /\ UNCHANGED <<wa, layer_files>>
             ELSE /\ def_failed' = skipped
                  /\ Goto(t, "loop")
                  /\ UNCHANGED <<wa, layer_files, exc>>
    /\ UNCHANGED <<pvars, gvars, include_data, temp_dir, i, escaped,
                   progress, finished, archive, queue>>

\* try: if hasattr(QgsLayerDefinition, "writeLayer"): writeLayer; append
\* except Exception: pass
WriteDef(t) ==
    /\ pc[t] = "def"
    /\ LET layer_def_file == DefName(layers[i[t]])
           skipped == [def_failed EXCEPT ![t] = @ \cup {i[t]}]
       IN IF hasWriteLayer
             THEN \/ /\ wa' = [wa EXCEPT ![temp_dir[t]] =
                                  WriteFile(@, layer_def_file,
                                            Content("def", i[t], <<>>, FALSE))]
                     /\ layer_files' = [layer_files EXCEPT ![t] = Append(@, layer_def_file)]
                     /\ UNCHANGED def_failed
                  \/ /\ def_failed' = skipped               \* writeLayer raises
                     /\ UNCHANGED <<wa, layer_files>>
             ELSE /\ def_failed' = skipped
                  /\ UNCHANGED <<wa, layer_files>>
    /\ Goto(t, "loop")
    /\ UNCHANGED <<pvars, gvars, include_data, temp_dir, i, exc, escaped,
                   progress, finished, archive, queue>>

\* with zipfile.ZipFile(self.output_path, 'w', ...): the file is created (or
\* truncated) when it is opened.
ZipOpen(t) ==
    /\ pc[t] = "zip"
    /\ \/ /\ archive' = [exists |-> TRUE, entries |-> <<>>, complete |-> FALSE]
          /\ Goto(t, "zipwrite")
          /\ UNCHANGED exc
       \/ /\ Raise(t, "OSError")
          /\ UNCHANGED archive
    /\ UNCHANGED <<pvars, gvars, include_data, def_failed, temp_dir, i, layer_files,
                   escaped, progress, finished, wa, queue>>

\* The files the with block writes, in order, before the manifest.
ZipFiles(t) == <<ProjectQgz>> \o layer_files[t]

\* zipf.write(file_path, os.path.basename(file_path))
ZipEntry(t, k) == File(ZipFiles(t)[k], ReadFile(wa[temp_dir[t]], ZipFiles(t)[k]))

Metadata(t) == Content("metadata", total_layers, <<>>, include_data[t])

\* The body of the with block. zipf.write raises FileNotFoundError for a
\* file that is not in the working area, and any write may fail (fault is its
\* position, 0 for none; Len(ZipFiles) + 1 is the manifest). Leaving the
\* block closes the archive with the entries written so far.
ZipWrite(t) ==
    /\ pc[t] = "zipwrite"
    /\ \E fault \in 0..(Len(ZipFiles(t)) + 1) :
         LET n == Len(ZipFiles(t))
             dir == wa[temp_dir[t]]
             missing == {k \in 1..n : ~HasFile(dir, ZipFiles(t)[k])}
             stops == missing \cup (IF fault = 0 THEN {} ELSE {fault})
             stop == CHOOSE k \in stops : \A j \in stops : k <= j
             withMeta == WriteFile(dir, MetadataJson, Metadata(t))
         IN IF stops = {}
               THEN /\ wa' = [wa EXCEPT ![temp_dir[t]] = withMeta]
                    /\ archive' = [exists |-> TRUE,
                                   entries |-> [k \in 1..(n + 1) |->
                                       IF k <= n THEN ZipEntry(t, k)
                                       ELSE File(MetadataJson, Metadata(t))],
                                   complete |-> TRUE]
                    /\ Goto(t, "success")
                    /\ UNCHANGED exc
               ELSE /\ archive' = [exists |-> TRUE,
                                   entries |-> [k \in 1..(stop - 1) |-> ZipEntry(t, k)],
                                   complete |-> FALSE]
                    /\ Raise(t, IF stop \in missing THEN "FileNotFoundError"
                                ELSE "OSError")
                    /\ UNCHANGED wa
    /\ UNCHANGED <<pvars, gvars, include_data, def_failed, temp_dir, i, layer_files,
                   escaped, progress, finished, queue>>

\* progress_updated.emit(100); finished_signal.emit(True, ...)
Success(t) ==
    /\ pc[t] = "success"
    /\ progress' = [progress EXCEPT ![t] = Append(@, 100)]
    /\ finished' = [finished EXCEPT ![t] = Append(@, TRUE)]
    /\ queue' = queue \o <<ProgressEvent(t, 100), FinishedEvent(t, TRUE)>>
    /\ Goto(t, "finally")
    /\ UNCHANGED <<pvars, gvars, include_data, def_failed, temp_dir, i, layer_files, exc,
                   escaped, wa, archive>>

\* except Exception as e: logMessage; finished_signal.emit(False, ...)
Except(t) ==
    /\ pc[t] = "except"
    /\ IF Catches(exc[t])
          THEN /\ EmitFinished(t, FALSE)
               /\ exc' = [exc EXCEPT ![t] = ""]
          ELSE UNCHANGED <<finished, queue, exc>>
    /\ Goto(t, "finally")
    /\ UNCHANGED <<pvars, gvars, include_data, def_failed, temp_dir, i, layer_files,
                   escaped, progress, wa, archive>>

\* Variant: the removal placed at the end of the try block instead of in
\* finally, so that only a successful run removes its working area.
FinallyOnSuccessOnly(t) ==
    /\ pc[t] = "finally"
    /\ wa' = IF temp_dir[t] # 0 /\ wa[temp_dir[t]].exists /\ finished[t] = <<TRUE>>
                THEN [wa EXCEPT ![temp_dir[t]] = NoDir]
                ELSE wa
    /\ escaped' = [escaped EXCEPT ![t] = exc[t]]
    /\ Goto(t, "done")
    /\ UNCHANGED <<pvars, gvars, include_data, def_failed, temp_dir, i, layer_files, exc,
                   progress, finished, archive, queue>>

\* finally: if self.temp_dir and os.path.exists(self.temp_dir): rmtree
Finally(t) ==
    /\ pc[t] = "finally"
    /\ wa' = IF temp_dir[t] # 0 /\ wa[temp_dir[t]].exists
                THEN [wa EXCEPT ![temp_dir[t]] = NoDir]
                ELSE wa
    /\ escaped' = [escaped EXCEPT ![t] = exc[t]]
    /\ Goto(t, "done")
    /\ UNCHANGED <<pvars, gvars, include_data, def_failed, temp_dir, i, layer_files, exc,
                   progress, finished, archive, queue>>

Run(t) ==
    \/ RunStart(t)
    \/ CheckProject(t)
    \/ Backup(t)
    \/ LoopNext(t)
    \/ CopyData(t)
    \/ SaveStyle(t)
    \/ WriteDef(t)
    \/ ZipOpen(t)
    \/ ZipWrite(t)
    \/ Success(t)
    \/ Except(t)
    \/ Finally(t)

\* ------------------------------------------------------------ ProjectCloner
\* start_clone, the slot of clone_button.clicked: a disabled button, or a
\* window under a modal box, takes no click.
StartClone ==
    /\ clone_button
    /\ boxes = <<>>
    /\ IF output_path_edit = ""
          THEN /\ boxes' = Append(boxes, "warning")
               /\ UNCHANGED <<clone_button, progress_bar, clone_thread, pc,
                              include_data>>
          ELSE \E t \in Threads, checked \in BOOLEAN :
                 /\ pc[t] = "idle"
                 /\ \A s \in 1..(t - 1) : pc[s] # "idle"
                 /\ clone_button' = FALSE
                 /\ progress_bar' = 0
                 /\ clone_thread' = t
                 /\ include_data' = [include_data EXCEPT ![t] = checked]
                 /\ pc' = [pc EXCEPT ![t] = "start"]
                 /\ UNCHANGED boxes
    /\ UNCHANGED <<pvars, output_path_edit, def_failed, temp_dir, i, layer_files, exc,
                   escaped, progress, finished, wa, archive, queue>>

\* The GUI thread's event loop (the main one, or a modal box's) delivers the
\* oldest queued signal: progress_bar.setValue, or clone_finished up to its
\* message box.
Deliver ==
    /\ queue # <<>>
    /\ LET e == Head(queue)
       IN IF e.sig = "progress"
             THEN /\ progress_bar' = e.value
                  /\ UNCHANGED <<clone_button, boxes>>
             ELSE /\ clone_button' = TRUE
                  /\ boxes' = Append(boxes, IF e.success THEN "information"
                                            ELSE "critical")
                  /\ UNCHANGED progress_bar
    /\ queue' = Tail(queue)
    /\ UNCHANGED <<pvars, output_path_edit, clone_thread, pc, include_data, def_failed,
                   temp_dir, i, layer_files, exc, escaped, progress, finished,
                   wa, archive>>

\* The user closes the innermost message box and its handler runs to its
\* end: clone_finished sets the progress bar and drops the thread.
DismissBox ==
    /\ boxes # <<>>
    /\ LET box == boxes[Len(boxes)]
       IN IF box = "warning"
             THEN UNCHANGED <<progress_bar, clone_thread>>
             ELSE /\ progress_bar' = IF box = "information" THEN 100 ELSE 0
                  /\ clone_thread' = 0
    /\ boxes' = SubSeq(boxes, 1, Len(boxes) - 1)
    /\ UNCHANGED <<pvars, wvars, clone_button, output_path_edit>>

\* browse_output_path: the user picks a file; ".zip" is appended if missing.
BrowseOutputPath ==
    /\ boxes = <<>>
    /\ output_path_edit' = "out.zip"
    /\ UNCHANGED <<pvars, wvars, clone_button, progress_bar, clone_thread, boxes>>

\* ------------------------------------------------------------ specifications
InitWorker ==
    /\ hasWriteLayer \in BOOLEAN
    /\ temp_dir = [t \in Threads |-> 0]
    /\ def_failed = [t \in Threads |-> {}]
    /\ i = [t \in Threads |-> 0]
    /\ layer_files = [t \in Threads |-> <<>>]
    /\ exc = [t \in Threads |-> ""]
    /\ escaped = [t \in Threads |-> ""]
    /\ progress = [t \in Threads |-> <<>>]
    /\ finished = [t \in Threads |-> <<>>]
    /\ wa = [t \in Threads |-> NoDir]
    /\ archive = NoFile
    /\ queue = <<>>
    /\ boxes = <<>>
    /\ progress_bar = 0

\* One CloneThread, as start_clone leaves it: constructed and started.
Init ==
    /\ InitWorker
    /\ project_file \in {"", "p.qgz"}
    /\ layers \in LayerSeqs(MaxLayers)
    /\ \E checked \in BOOLEAN :
         include_data = [t \in Threads |-> IF t = 1 THEN checked ELSE FALSE]
    /\ pc = [t \in Threads |-> IF t = 1 THEN "start" ELSE "idle"]
    /\ clone_button = FALSE
    /\ output_path_edit = "out.zip"
    /\ clone_thread = 1

Next == \E t \in Threads : Run(t)

Spec == Init /\ [][Next]_vars

\* The dialog as ProjectClonerDialog.__init__ leaves it: the default output
\* path is set only when a project is loaded (set_default_output_path).
InitUI ==
    /\ InitWorker
    /\ project_file \in {"", "p.qgz"}
    /\ layers \in LayerSeqs(MaxLayersUI)
    /\ include_data = [t \in Threads |-> FALSE]
    /\ pc = [t \in Threads |-> "idle"]
    /\ clone_button = TRUE
    /\ output_path_edit = IF project_file = "" THEN "" ELSE "out.zip"
    /\ clone_thread = 0

NextUI ==
    \/ \E t \in Threads : Run(t)
    \/ StartClone
    \/ Deliver
    \/ DismissBox
    \/ BrowseOutputPath

SpecUI == InitUI /\ [][NextUI]_vars

\* ------------------------------------------------------------ properties
Done(t) == pc[t] = "done"
Succeeded(t) == Done(t) /\ finished[t] = <<TRUE>>
EntryNames == {archive.entries[k].name : k \in DOMAIN archive.entries}
EntryContents == {archive.entries[k].content : k \in DOMAIN archive.entries}
Range(s) == {s[k] : k \in DOMAIN s}

\* C1: a run started while no project is loaded fails, never has a working
\* area on disk at any point, and leaves no archive at the output path.
C1_NoProjectNoSideEffects ==
    project_file = "" =>
        /\ \A t \in Threads : ~wa[t].exists
        /\ ~archive.exists
        /\ \A t \in Threads : Done(t) => finished[t] = <<FALSE>>

\* Once a run has returned, its working area is not on disk.
C2_Removed == \A t \in Threads : Done(t) => ~wa[t].exists

\* The step that ends a run is the one leaving the finally block, it emits
\* nothing and writes no archive, and the working area disappears in no other
\* step.
C2_RemovalIsLast ==
    \A t \in Threads :
        /\ (~Done(t) /\ Done(t)') =>
               /\ pc[t] = "finally"
               /\ progress'[t] = progress[t]
               /\ finished'[t] = finished[t]
               /\ archive' = archive
        /\ (wa[t].exists /\ ~wa'[t].exists) => Done(t)'

C4_Progress ==
    \A t \in Threads :
        LET p == progress[t]
            n == Len(layers)
        IN /\ \A k \in DOMAIN p : p[k] \in 0..100
           /\ \A k \in DOMAIN p : k > 1 => p[k - 1] <= p[k]
           /\ \A k \in DOMAIN p :
                  /\ k = 1 => p[k] = 10
                  /\ (1 < k /\ k <= n + 1) => p[k] = 10 + ((80 * (k - 1)) \div n)
                  /\ k = n + 2 => p[k] = 100
           /\ Len(p) <= n + 2
           /\ finished[t] = <<FALSE>> => 100 \notin Range(p)
           /\ Done(t) => (100 \in Range(p) <=> finished[t] = <<TRUE>>)

C4_Witness ==
    \E t \in Threads : Succeeded(t) /\ Len(layers) >= 2 /\ Len(progress[t]) = Len(layers) + 2

\* C5: in a successful run every layer, whatever its kind, has a style entry
\* <sanitized-layer-name>.qml in the archive.
C5_EveryLayerHasStyle ==
    \A t \in Threads :
        Succeeded(t) =>
            \A k \in 1..Len(layers) : StyleName(layers[k]) \in EntryNames

\* C6: in a successful run with include-data, for each vector or raster layer
\* whose source is an existing file, the archive holds the data file and every
\* associated sibling file, each under its own base filename.
C6_SiblingsArchived ==
    \A t \in Threads :
        (Succeeded(t) /\ include_data[t]) =>
            \A k \in 1..Len(layers) :
                (IsDataBearing(layers[k]) /\ isfile(layers[k].source)) =>
                    Associated(layers[k].source) \subseteq EntryNames

\* C7 (as stated): with include-data, EVERY layer whose source is an existing
\* file has a data-file entry; without it, no data file is in the working
\* area or in the archive.
C7_FlagAloneDecides ==
    \A t \in Threads :
        /\ (Succeeded(t) /\ include_data[t]) =>
               \A k \in 1..Len(layers) :
                   isfile(layers[k].source) => DataName(layers[k]) \in EntryNames
        /\ (pc[t] # "idle" /\ ~include_data[t]) =>
               /\ \A f \in wa[t].files : f.content.kind # "data"
               /\ Succeeded(t) => \A c \in EntryContents : c.kind # "data"

\* C7 (amended): with include-data, every VECTOR OR RASTER layer whose source
\* is an existing file has an entry <sanitized-layer-name><source extension>;
\* without it, no data file is in the working area or in the archive.
C7_FlagDecidesDataBearing ==
    \A t \in Threads :
        /\ (Succeeded(t) /\ include_data[t]) =>
               \A k \in 1..Len(layers) :
                   (IsDataBearing(layers[k]) /\ isfile(layers[k].source)) =>
                       DataName(layers[k]) \in EntryNames
        /\ (pc[t] # "idle" /\ ~include_data[t]) =>
               /\ \A f \in wa[t].files : f.content.kind # "data"
               /\ Succeeded(t) => \A c \in EntryContents : c.kind # "data"

C7_Witness ==
    \E t \in Threads :
        /\ Succeeded(t) /\ include_data[t]
        /\ \E k \in 1..Len(layers) :
               /\ IsDataBearing(layers[k]) /\ isfile(layers[k].source)
               /\ \E j \in DOMAIN archive.entries :
                      /\ archive.entries[j].name = DataName(layers[k])
                      /\ archive.entries[j].content.kind = "data"

\* The definition step always hands over to the next layer, with no exception
\* in flight and nothing emitted.
C8_DefStepContinues ==
    \A t \in Threads :
        (pc[t] = "def" /\ pc'[t] # "def") =>
            /\ pc'[t] = "loop"
            /\ exc'[t] = ""
            /\ finished'[t] = finished[t]

\* A successful run has no definition entry for a layer whose export was
\* skipped or raised, and its manifest counts every layer of the project.
C8_NoEntryCountKept ==
    \A t \in Threads :
        Succeeded(t) =>
            /\ \A k \in def_failed[t] :
                   \A c \in EntryContents : ~(c.kind = "def" /\ c.n = k)
            /\ \E c \in EntryContents : c.kind = "metadata" /\ c.n = Len(layers)
            /\ \A c \in EntryContents : c.kind = "metadata" => c.n = Len(layers)

\* C8: a definition export that is skipped (no writeLayer) or raises never
\* changes the outcome: the run goes on with the next layer and can succeed,
\* the archive has no definition entry for that layer, and the manifest's
\* layer_count is the number of layers of the project.
C8_DefinitionFailureIgnored == []C8_NoEntryCountKept /\ [][C8_DefStepContinues]_vars

C8_Witness ==
    \E t \in Threads :
        /\ Succeeded(t) /\ hasWriteLayer
        /\ def_failed[t] # {}
        /\ \E c \in EntryContents : c.kind = "def"

\* C9: after a run, either the outcome is success and the archive is fully
\* written, or the outcome is failure and there is no archive at the output
\* path.
C9_NoPartialSuccess ==
    \A t \in Threads :
        Done(t) =>
            \/ finished[t] = <<TRUE>> /\ archive.exists /\ archive.complete
            \/ finished[t] = <<FALSE>> /\ ~archive.exists

\* C10: at most one CloneThread is executing at any time: a run starts only
\* when every earlier worker has returned from run().
C10_RunsNeverOverlap ==
    Cardinality({t \in Threads : pc[t] \notin {"idle", "done"}}) <= 1
=============================================================================
